---- MODULE Spec2Model ----
(***************************************************************************)
(* A model of psteitz/ifs: the concurrent frame pipeline (engine.Julia and *)
(* frameWorker), the parameter paths (watFunc, linFunc, expFunc), the      *)
(* Julia kernel (juliaIFS) and the Newton kernel's colour mapping          *)
(* (newtonIFS).                                                            *)
(*                                                                         *)
(* Six state machines share the module's variables; each has its own       *)
(* specification and leaves the other machines' variables untouched:       *)
(*   Spec / FairSpec  the pipeline: one call of Julia and its workers      *)
(*   SpecKernel       one call of juliaIFS, iteration by iteration         *)
(*   SpecNewton       one call of newtonIFS, iteration by iteration        *)
(*   SpecPixel        one pixel of a Julia image, from the kernel's result *)
(*                    to the colour                                        *)
(*   SpecPath         one path function applied to each index of a frame   *)
(*                    count                                                *)
(*   SpecHandler      one request to the handler julia, up to its call of  *)
(*                    the pipeline                                         *)
(* SpecTwice runs the pipeline twice with the same arguments, SpecFault    *)
(* runs it with workers that may panic.                                    *)
(***************************************************************************)
EXTENDS Integers, Sequences, FiniteSets, TLC

VARIABLES
    \* ---- the pipeline: Julia's arguments and locals
    nFrames,     \* argument nFrames
    nWorkers,    \* argument nWorkers
    paramPath,   \* argument paramPath
    pc,          \* where the goroutine running Julia stands
    k,           \* loop variable of the push loop (line 43)
    started,     \* loop variable of the spawn loop (line 52)
    received,    \* loop variable of the collect loop (line 57)
    fpMem,       \* the variables fp of the push loop: address -> its value
    jobs,        \* buffer of the jobs channel, oldest first: pointers
    jobsClosed,  \* close(jobs) has run
    results,     \* buffer of the results channel, oldest first
    frames,      \* the slot array: index -> image or NoImage
    animImage,   \* anim.Image
    encoded,     \* the sequences gif.EncodeAll was handed, one per call
    \* ---- the workers: one frameWorker goroutine each
    wpc,         \* worker -> "none" | "recv" | "render" | "send" | "done"
    wfp,         \* worker -> the pointer it holds (fp), or NoJob
    wimg,        \* worker -> the image it has rendered (pimg), or NoImage
    \* ---- history of the pipeline (not program state)
    enq,         \* index -> number of jobs with that index pushed so far
    deq,         \* index -> number of times a job of that index was dequeued
    snt,         \* index -> number of results of that index sent so far
    wrote,       \* index -> number of times the slot was written
    arrival,     \* the index fields of the results, in the order received
    prevFirst,   \* the index that arrived first in the call before, or -1
    faulted,     \* the indices of the jobs whose render has panicked
    \* ---- one call of juliaIFS
    kpc,         \* "loop" | "done"
    kz0,         \* argument z as passed
    kz,          \* local z
    kc,          \* argument c
    kmaxIter,    \* argument maxIter
    kbig,        \* argument big
    ki,          \* loop variable i
    kret,        \* the value returned
    orbit,       \* history: the iterates computed so far, in order
    \* ---- one call of newtonIFS
    npc,         \* "loop" | "done"
    nz0,         \* what is kept of argument z: a root, "zero" or "other"
    ni,          \* loop variable i
    nroot,       \* history: the root whose test matched, or "none"
    ncol,        \* the colour returned
    \* ---- one pixel of a Julia image (frameWorker or juliaSingle)
    xpc,         \* "kernel" | "set" | "done"
    xfn,         \* the function drawing the pixel
    xj,          \* the result of juliaIFS for the pixel
    xcol,        \* the colour passed to img.Set
    \* ---- one path function applied to the indices 0 .. nFrames
    tpc,         \* "step" | "done"
    tname,       \* the name of the path function
    tn,          \* argument nFrames
    ti,          \* the next argument i
    tout,        \* the values returned so far: tout[i + 1] is path(i, tn)
    \* ---- one request to the handler julia of the server
    hpc,         \* "path" | "frames" | "workers" | "call" | "called"
    qpath,       \* value of parampath in the query string, "" if missing
    qframes,     \* value of numframes: a sequence of characters
    qworkers,    \* value of numworkers: a sequence of characters
    hpath,       \* local paramPath
    hframes,     \* local nFrames
    hworkers     \* local nWorkers

pipeVars == <<nFrames, nWorkers, paramPath, pc, k, started, received, fpMem, jobs,
              jobsClosed, results, frames, animImage, encoded, wpc, wfp, wimg,
              enq, deq, snt, wrote, arrival, prevFirst, faulted>>
kernVars == <<kpc, kz0, kz, kc, kmaxIter, kbig, ki, kret, orbit>>
newtVars == <<npc, nz0, ni, nroot, ncol>>
pixVars == <<xpc, xfn, xj, xcol>>
pathVars == <<tpc, tname, tn, ti, tout>>
handVars == <<hpc, qpath, qframes, qworkers, hpath, hframes, hworkers>>
vars == <<pipeVars, kernVars, newtVars, pixVars, pathVars, handVars>>

(***************************************************************************)
(* Bounds of the model.                                                    *)
(***************************************************************************)
MaxFrames == 3     \* nFrames is drawn from -1 .. MaxFrames
MaxWorkers == 3    \* nWorkers is drawn from -1 .. MaxWorkers

(***************************************************************************)
(* float64 values.  A finite value is an exact fraction num/den in lowest  *)
(* terms (rounding is not modelled); the IEEE special values that the      *)
(* paths can produce (division by zero, 0 * Inf, x - Inf) are kept apart.  *)
(***************************************************************************)
RECURSIVE GCD(_, _)
GCD(a, b) == IF b = 0 THEN a ELSE GCD(b, a % b)

Abs(a) == IF a < 0 THEN -a ELSE a

Fin(n, d) ==
    LET g == GCD(Abs(n), Abs(d))
        s == IF d < 0 THEN -1 ELSE 1
    IN  [kind |-> "fin", num |-> (s * n) \div g, den |-> (s * d) \div g]

NaN == [kind |-> "nan"]
Inf(sign) == [kind |-> "inf", sign |-> sign]

Sign(x) == IF x.kind = "inf" THEN x.sign
           ELSE IF x.num < 0 THEN -1 ELSE IF x.num > 0 THEN 1 ELSE 0

\* float64(i) of an int
float64(i) == Fin(i, 1)

\* x / y
FDiv(x, y) ==
    IF x.kind = "nan" \/ y.kind = "nan" THEN NaN
    ELSE IF x.kind = "inf" THEN (IF y.kind = "inf" THEN NaN
                                 ELSE Inf(x.sign * (IF y.num < 0 THEN -1 ELSE 1)))
    ELSE IF y.kind = "inf" THEN Fin(0, 1)
    ELSE IF y.num = 0 THEN (IF x.num = 0 THEN NaN ELSE Inf(Sign(x)))
    ELSE Fin(x.num * y.den, x.den * y.num)

\* x * y
FMul(x, y) ==
    IF x.kind = "nan" \/ y.kind = "nan" THEN NaN
    ELSE IF x.kind = "inf" \/ y.kind = "inf"
         THEN (IF Sign(x) = 0 \/ Sign(y) = 0 THEN NaN ELSE Inf(Sign(x) * Sign(y)))
    ELSE Fin(x.num * y.num, x.den * y.den)

\* x + y
FAdd(x, y) ==
    IF x.kind = "nan" \/ y.kind = "nan" THEN NaN
    ELSE IF x.kind = "inf" /\ y.kind = "inf"
         THEN (IF x.sign = y.sign THEN x ELSE NaN)
    ELSE IF x.kind = "inf" THEN x
    ELSE IF y.kind = "inf" THEN y
    ELSE Fin(x.num * y.den + y.num * x.den, x.den * y.den)

\* x - y
FSub(x, y) ==
    FAdd(x, IF y.kind = "nan" THEN NaN
            ELSE IF y.kind = "inf" THEN Inf(-y.sign)
            ELSE Fin(-y.num, y.den))

\* complex(re, im)
complex(re, im) == [re |-> re, im |-> im]

(***************************************************************************)
(* The parameter paths.                                                    *)
(***************************************************************************)
\* the triangle wave both watFunc and linFunc compute (lines 79-86, 97-104)
TriangleAlpha(i, n, paramWidth) ==
    LET halframes == n \div 2
        delta == FDiv(paramWidth, float64(halframes))
    IN  IF i < halframes
        THEN FMul(float64(i), delta)
        ELSE FSub(paramWidth, FMul(float64(i - halframes), delta))

watFunc(i, n) ==
    LET paramWidth == Fin(2, 10)
        paramStart == Fin(-145, 100)
        alpha == TriangleAlpha(i, n, paramWidth)
    IN  complex(FAdd(paramStart, alpha), Fin(0, 1))

linFunc(i, n) ==
    LET centerRe == Fin(3887, 10000)
        centerIm == Fin(-2158, 10000)
        paramWidth == Fin(6, 100)
        alpha == TriangleAlpha(i, n, paramWidth)
    IN  complex(FAdd(centerRe, alpha), FAdd(centerIm, alpha))

\* expFunc with the angle Pi * i / nFrames: half a turn over all frames
expFuncHalfTurn(i, n) ==
    [mod |-> Fin(7885, 10000), turn |-> FDiv(float64(i), float64(2 * n))]

\* .7885 * e^(i * 2 * Pi * i / nFrames), kept in polar form: the modulus and
\* the angle as a fraction of a full turn, float64(i) / float64(nFrames)
expFunc(i, n) ==
    [mod |-> Fin(7885, 10000), turn |-> FDiv(float64(i), float64(n))]

\* the names the map paramFuncs holds
paramFuncNames == {"Angor", "Exp", "Wabbit"}

\* the function the map paramFuncs holds for a name (lines 28-32)
paramFunc(name, i, n) ==
    CASE name = "Angor"  -> watFunc(i, n)
      [] name = "Exp"    -> expFunc(i, n)
      [] name = "Wabbit" -> linFunc(i, n)

\* The values of the three functions for the frame counts of the model,
\* computed once: for n frames, the arguments 0 .. n.
paramTable ==
    [name \in paramFuncNames |->
        [n \in 1..MaxFrames |-> [i \in 0..n |-> paramFunc(name, i, n)]]]

\* paramFuncs[name](i, n), for a name the map holds
paramFuncs(name, i, n) == paramTable[name][n][i]

(***************************************************************************)
(* The pipeline: Julia and frameWorker.                                    *)
(***************************************************************************)
Workers == 1..MaxWorkers
Indices == 0..(MaxFrames - 1)

\* the path names a caller may pass: the three of the map and one it lacks
PathNames == paramFuncNames \cup {"Mandel"}

NoJob == [none |-> TRUE]
NoImage == [none |-> TRUE]

\* frameParameter{k, cp}
frameParameter(index, c) == [index |-> index, c |-> c]

\* frame with the index left at its zero value
frameIndexUnset(index, img) == [index |-> 0, img |-> img]

\* frame{fp.index, pimg}
frame(index, img) == [index |-> index, img |-> img]

\* FpAddr with fp one variable declared outside the loop: every turn writes
\* and sends the same address
FpAddrReused(i) == 0

\* the address of the variable fp of turn i of the push loop (line 45): fp
\* is declared inside the loop body, a new variable each turn
FpAddr(i) == i

\* &fp
AddrOf(a) == [at |-> a]

\* *p, for a pointer p to a frameParameter
Deref(p) == fpMem[p.at]

\* RenderFrame with a raster that depends on when it is drawn: on the number
\* of results the collector has received by then
RenderFrameTimed(fp) == [job |-> fp.index, pix |-> <<fp.c, received>>]

\* RenderFrame with one raster buffer shared by all workers: a worker's
\* frame shows the parameter of the lowest-numbered worker that is drawing
RenderFrameShared(fp) ==
    LET busy == {w \in Workers : wpc[w] \in {"render", "send"}}
        first == CHOOSE w \in busy : \A v \in busy : w <= v
    IN  [job |-> fp.index, pix |-> Deref(wfp[first]).c]

\* The raster frameWorker draws for a job (lines 129-147): every pixel is a
\* function of fp.c alone, so the raster is represented by the parameter it
\* was drawn from.  The field job is history, not program state: it records
\* which job the raster was rendered from.
RenderFrame(fp) == [job |-> fp.index, pix |-> fp.c]

\* ChanCap with channels of half the size: make(chan ..., nFrames/2)
ChanCapHalf == nFrames \div 2

\* ChanCap with channels one place too small
ChanCapShort == nFrames - 1

\* cap(jobs), cap(results): make(chan ..., nFrames)
ChanCap == nFrames

PipeInit ==
    /\ nFrames \in (-1)..MaxFrames
    /\ nWorkers \in (-1)..MaxWorkers
    /\ paramPath \in PathNames
    /\ pc = "make"
    /\ k = 0
    /\ started = 0
    /\ received = 0
    /\ fpMem = [i \in Indices |-> NoJob]
    /\ jobs = <<>>
    /\ jobsClosed = FALSE
    /\ results = <<>>
    /\ frames = <<>>
    /\ animImage = <<>>
    /\ encoded = <<>>
    /\ wpc = [w \in Workers |-> "none"]
    /\ wfp = [w \in Workers |-> NoJob]
    /\ wimg = [w \in Workers |-> NoImage]
    /\ enq = [i \in Indices |-> 0]
    /\ deq = [i \in Indices |-> 0]
    /\ snt = [i \in Indices |-> 0]
    /\ wrote = [i \in Indices |-> 0]
    /\ arrival = <<>>
    /\ prevFirst = -1
    /\ faulted = {}

\* lines 38-41: make(chan, nFrames) and make([]..., nFrames) panic on a
\* negative size
MakeChans ==
    /\ pc = "make"
    /\ IF nFrames < 0
       THEN /\ pc' = "panic"
            /\ UNCHANGED frames
       ELSE /\ pc' = "push"
            /\ frames' = [i \in 0..(nFrames - 1) |-> NoImage]
    /\ UNCHANGED <<kernVars, newtVars, pixVars, pathVars, handVars, prevFirst, faulted, fpMem, nFrames, nWorkers, paramPath, k, started, received, jobs,
                   jobsClosed, results, animImage, encoded, wpc, wfp, wimg,
                   enq, deq, snt, wrote, arrival>>

\* lines 43-50, one turn of the loop: paramFuncs[paramPath] is nil for a name
\* the map lacks, and calling it panics before anything is sent
PushJob ==
    /\ pc = "push"
    /\ k < nFrames
    /\ IF paramPath \notin paramFuncNames
       THEN /\ pc' = "panic"
            /\ UNCHANGED <<k, fpMem, jobs, enq>>
       ELSE /\ Len(jobs) < ChanCap
            /\ fpMem' = [fpMem EXCEPT ![FpAddr(k)] =
                             frameParameter(k, paramFuncs(paramPath, k, nFrames))]
            /\ jobs' = Append(jobs, AddrOf(FpAddr(k)))
            /\ enq' = [enq EXCEPT ![k] = @ + 1]
            /\ k' = k + 1
            /\ pc' = pc
    /\ UNCHANGED <<kernVars, newtVars, pixVars, pathVars, handVars, prevFirst, faulted, nFrames, nWorkers, paramPath, started, received,
                   jobsClosed, results, frames, animImage, encoded, wpc, wfp,
                   wimg, deq, snt, wrote, arrival>>

\* line 43, the loop ends
PushExit ==
    /\ pc = "push"
    /\ k >= nFrames
    /\ pc' = "spawn"
    /\ UNCHANGED <<kernVars, newtVars, pixVars, pathVars, handVars, prevFirst, faulted, fpMem, nFrames, nWorkers, paramPath, k, started, received, jobs,
                   jobsClosed, results, frames, animImage, encoded, wpc, wfp,
                   wimg, enq, deq, snt, wrote, arrival>>

\* lines 52-54, one turn of the loop: go frameWorker(jobs, results)
StartWorker ==
    /\ pc = "spawn"
    /\ started < nWorkers
    /\ wpc' = [wpc EXCEPT ![started + 1] = "recv"]
    /\ started' = started + 1
    /\ UNCHANGED <<kernVars, newtVars, pixVars, pathVars, handVars, prevFirst, faulted, fpMem, nFrames, nWorkers, paramPath, pc, k, received, jobs,
                   jobsClosed, results, frames, animImage, encoded, wfp, wimg,
                   enq, deq, snt, wrote, arrival>>

\* CloseJobs without the close: Julia goes on to collect and leaves the
\* channel open
CloseJobsForgotten ==
    /\ pc = "spawn"
    /\ started >= nWorkers
    /\ pc' = "collect"
    /\ UNCHANGED <<kernVars, newtVars, pixVars, pathVars, handVars, prevFirst, faulted, fpMem, nFrames,
                   nWorkers, paramPath, k, started, received, jobs, jobsClosed,
                   results, frames, animImage, encoded, wpc, wfp, wimg,
                   enq, deq, snt, wrote, arrival>>

\* line 55: close(jobs), once the spawn loop has ended
CloseJobs ==
    /\ pc = "spawn"
    /\ started >= nWorkers
    /\ jobsClosed' = TRUE
    /\ pc' = "collect"
    /\ UNCHANGED <<kernVars, newtVars, pixVars, pathVars, handVars, prevFirst, faulted, fpMem, nFrames, nWorkers, paramPath, k, started, received, jobs,
                   results, frames, animImage, encoded, wpc, wfp, wimg,
                   enq, deq, snt, wrote, arrival>>

\* CollectCount with the loop ending one result early
CollectCountShort == nFrames - 1

\* the number of results the collect loop takes before it ends (line 57)
CollectCount == nFrames

\* SlotOf with results stored in the order they arrive
SlotByArrival(fr, i) == i

\* the slot the collector writes for a received frame (line 59)
SlotOf(fr, i) == fr.index

\* lines 57-60, one turn of the loop: frame := <-results blocks while the
\* channel is empty
Collect ==
    /\ pc = "collect"
    /\ received < CollectCount
    /\ results # <<>>
    /\ LET fr == Head(results)
           slot == SlotOf(fr, received)
       IN  /\ frames' = [frames EXCEPT ![slot] = fr.img]
           /\ wrote' = [wrote EXCEPT ![slot] = @ + 1]
           /\ arrival' = Append(arrival, fr.index)
    /\ results' = Tail(results)
    /\ received' = received + 1
    /\ UNCHANGED <<kernVars, newtVars, pixVars, pathVars, handVars, prevFirst, faulted, fpMem, nFrames, nWorkers, paramPath, pc, k, started, jobs,
                   jobsClosed, animImage, encoded, wpc, wfp, wimg,
                   enq, deq, snt>>

\* line 57, the loop ends
CollectExit ==
    /\ pc = "collect"
    /\ received >= CollectCount
    /\ pc' = "assemble"
    /\ UNCHANGED <<kernVars, newtVars, pixVars, pathVars, handVars, prevFirst, faulted, fpMem, nFrames, nWorkers, paramPath, k, started, received, jobs,
                   jobsClosed, results, frames, animImage, encoded, wpc, wfp,
                   wimg, enq, deq, snt, wrote, arrival>>

\* lines 62-66, one turn of the loop: anim.Image = append(anim.Image, frames[i])
AppendFrame ==
    /\ pc = "assemble"
    /\ Len(animImage) < nFrames
    /\ animImage' = Append(animImage, frames[Len(animImage)])
    /\ UNCHANGED <<kernVars, newtVars, pixVars, pathVars, handVars, prevFirst, faulted, fpMem, nFrames, nWorkers, paramPath, pc, k, started, received,
                   jobs, jobsClosed, results, frames, encoded, wpc, wfp, wimg,
                   enq, deq, snt, wrote, arrival>>

\* line 69: gif.EncodeAll(w, &anim), once the assemble loop has ended; Julia
\* then returns
Encode ==
    /\ pc = "assemble"
    /\ Len(animImage) >= nFrames
    /\ encoded' = Append(encoded, animImage)
    /\ pc' = "done"
    /\ UNCHANGED <<kernVars, newtVars, pixVars, pathVars, handVars, prevFirst, faulted, fpMem, nFrames, nWorkers, paramPath, k, started, received, jobs,
                   jobsClosed, results, frames, animImage, wpc, wfp, wimg,
                   enq, deq, snt, wrote, arrival>>

\* JobsAfterRecv with a receive that empties the channel
JobsAfterDrain(q) == <<>>

\* JobsAfterRecv with the job read but left in the channel
JobsAfterPeek(q) == q

\* what a receive from jobs leaves in the channel (line 128)
JobsAfterRecv(q) == Tail(q)

\* line 128: fp := range jobs takes the oldest job
WorkerRecv(w) ==
    /\ wpc[w] = "recv"
    /\ jobs # <<>>
    /\ wfp' = [wfp EXCEPT ![w] = Head(jobs)]
    /\ deq' = [deq EXCEPT ![Deref(Head(jobs)).index] = @ + 1]
    /\ jobs' = JobsAfterRecv(jobs)
    /\ wpc' = [wpc EXCEPT ![w] = "render"]
    /\ UNCHANGED <<kernVars, newtVars, pixVars, pathVars, handVars, prevFirst, faulted, fpMem, nFrames, nWorkers, paramPath, pc, k, started, received,
                   jobsClosed, results, frames, animImage, encoded, wimg,
                   enq, snt, wrote, arrival>>

\* line 128: range ends once jobs is closed and empty; frameWorker returns
WorkerExit(w) ==
    /\ wpc[w] = "recv"
    /\ jobs = <<>>
    /\ jobsClosed
    /\ wpc' = [wpc EXCEPT ![w] = "done"]
    /\ UNCHANGED <<kernVars, newtVars, pixVars, pathVars, handVars, prevFirst, faulted, fpMem, nFrames, nWorkers, paramPath, pc, k, started, received,
                   jobs, jobsClosed, results, frames, animImage, encoded, wfp,
                   wimg, enq, deq, snt, wrote, arrival>>

\* lines 129-147: the frame is drawn and converted to a paletted image
WorkerRender(w) ==
    /\ wpc[w] = "render"
    /\ wimg' = [wimg EXCEPT ![w] = RenderFrame(Deref(wfp[w]))]
    /\ wpc' = [wpc EXCEPT ![w] = "send"]
    /\ UNCHANGED <<kernVars, newtVars, pixVars, pathVars, handVars, prevFirst, faulted, fpMem, nFrames, nWorkers, paramPath, pc, k, started, received,
                   jobs, jobsClosed, results, frames, animImage, encoded, wfp,
                   enq, deq, snt, wrote, arrival>>

\* lines 148-152: results <- &frame{fp.index, pimg} blocks while the channel
\* is full; the worker then returns to the head of its loop
WorkerSend(w) ==
    /\ wpc[w] = "send"
    /\ Len(results) < ChanCap
    /\ results' = Append(results, frame(Deref(wfp[w]).index, wimg[w]))
    /\ snt' = [snt EXCEPT ![Deref(wfp[w]).index] = @ + 1]
    /\ wfp' = [wfp EXCEPT ![w] = NoJob]
    /\ wimg' = [wimg EXCEPT ![w] = NoImage]
    /\ wpc' = [wpc EXCEPT ![w] = "recv"]
    /\ UNCHANGED <<kernVars, newtVars, pixVars, pathVars, handVars, prevFirst, faulted, fpMem, nFrames, nWorkers, paramPath, pc, k, started, received,
                   jobs, jobsClosed, frames, animImage, encoded, enq, deq,
                   wrote, arrival>>

\* Julia has returned and is called once more with the same arguments, as
\* by a second identical request to the handler (ifs-server/main.go line
\* 104): its locals and channels are new, its workers are new goroutines.
\* What was handed to the encoder stays on record.  The second call is taken
\* up once the workers of the first have returned: they share nothing with
\* the second call, whose channels are its own.
JuliaAgain ==
    /\ pc = "done"
    /\ Len(encoded) < 2
    /\ \A w \in Workers : wpc[w] \in {"none", "done"}
    /\ pc' = "make"
    /\ k' = 0
    /\ started' = 0
    /\ received' = 0
    /\ fpMem' = [i \in Indices |-> NoJob]
    /\ jobs' = <<>>
    /\ jobsClosed' = FALSE
    /\ results' = <<>>
    /\ frames' = <<>>
    /\ animImage' = <<>>
    /\ wpc' = [w \in Workers |-> "none"]
    /\ wfp' = [w \in Workers |-> NoJob]
    /\ wimg' = [w \in Workers |-> NoImage]
    /\ enq' = [i \in Indices |-> 0]
    /\ deq' = [i \in Indices |-> 0]
    /\ snt' = [i \in Indices |-> 0]
    /\ wrote' = [i \in Indices |-> 0]
    /\ arrival' = <<>>
    /\ prevFirst' = IF arrival = <<>> THEN -1 ELSE arrival[1]
    /\ UNCHANGED <<kernVars, newtVars, pixVars, pathVars, handVars, nFrames, nWorkers,
                   paramPath, encoded, faulted>>

\* one step of the goroutine that runs Julia
Julia ==
    \/ MakeChans
    \/ PushJob
    \/ PushExit
    \/ StartWorker
    \/ CloseJobs
    \/ Collect
    \/ CollectExit
    \/ AppendFrame
    \/ Encode

\* one step of worker w
frameWorker(w) ==
    \/ WorkerRecv(w)
    \/ WorkerExit(w)
    \/ WorkerRender(w)
    \/ WorkerSend(w)

\* a recover() that swallows the panic and lets the worker return
FaultStateReturned == "done"

\* frameWorker (lines 117-154) defers nothing and calls recover nowhere: a
\* panic in its loop body leaves the goroutine panicking
FaultState == "panic"

\* a run-time panic in the body of the loop of worker w (lines 129-151),
\* while it renders the job it holds: nothing is sent for the job
WorkerFault(w) ==
    /\ pc # "crashed"
    /\ wpc[w] = "render"
    /\ wpc' = [wpc EXCEPT ![w] = FaultState]
    /\ faulted' = faulted \cup {Deref(wfp[w]).index}
    /\ UNCHANGED <<kernVars, newtVars, pixVars, pathVars, handVars, prevFirst,
                   fpMem, nFrames, nWorkers, paramPath, pc, k, started,
                   received, jobs, jobsClosed, results, frames, animImage,
                   encoded, wfp, wimg, enq, deq, snt, wrote, arrival>>

\* a panic that no deferred call of its goroutine recovers ends the program:
\* the run-time system prints the panic and exits, and with it the goroutine
\* of Julia and every worker.  The workers are started by a go statement
\* (line 53), so the recover of the HTTP server, which covers the goroutine
\* of the handler only, does not apply.  Until the exit the other goroutines
\* keep running.
ProcessExit ==
    /\ pc # "crashed"
    /\ \E w \in Workers : wpc[w] = "panic"
    /\ pc' = "crashed"
    /\ wpc' = [w \in Workers |-> IF wpc[w] = "none" THEN "none" ELSE "killed"]
    /\ UNCHANGED <<kernVars, newtVars, pixVars, pathVars, handVars, prevFirst,
                   faulted, fpMem, nFrames, nWorkers, paramPath, k, started,
                   received, jobs, jobsClosed, results, frames, animImage,
                   encoded, wfp, wimg, enq, deq, snt, wrote, arrival>>

(***************************************************************************)
(* The Julia kernel: one call of juliaIFS(z, c, maxIter, big).  The        *)
(* arguments are complex numbers with integer parts, on which z*z + c and   *)
(* the comparison cmplx.Abs(z) > big are exact in float64.                  *)
(***************************************************************************)
MaxIter == 3       \* maxIter is drawn from 0 .. MaxIter
MaxBig == 10       \* big is drawn from 1 .. MaxBig
MaxC == 3          \* the parts of c are drawn from -MaxC .. MaxC

\* the integer points of the window [xmin, xmax] x [ymin, ymax]
Window == {complex(x, y) : x \in (-2)..2, y \in (-2)..2}
CRange == {complex(x, y) : x \in (-MaxC)..MaxC, y \in (-MaxC)..MaxC}

\* z*z + c (line 173)
JuliaStep(z, c) ==
    complex(z.re * z.re - z.im * z.im + c.re, 2 * z.re * z.im + c.im)

\* cmplx.Abs(z) > big (line 174)
Escapes(z, big) == z.re * z.re + z.im * z.im > big * big

\* EscapeReturn counting iterations from 1
EscapeReturnCount(i) == i + 1

\* return i (line 175)
EscapeReturn(i) == i

KernelInit ==
    /\ kpc = "loop"
    /\ kz0 \in Window
    /\ kz = kz0
    /\ kc \in CRange
    /\ kmaxIter \in 0..MaxIter
    /\ kbig \in 1..MaxBig
    /\ ki = 0
    /\ kret = -1
    /\ orbit = <<>>

\* lines 172-177, one turn of the loop
KernelIter ==
    /\ kpc = "loop"
    /\ ki < kmaxIter
    /\ LET z == JuliaStep(kz, kc)
       IN  /\ kz' = z
           /\ orbit' = Append(orbit, z)
           /\ IF Escapes(z, kbig)
              THEN /\ kret' = EscapeReturn(ki)
                   /\ kpc' = "done"
                   /\ ki' = ki
              ELSE /\ ki' = ki + 1
                   /\ UNCHANGED <<kret, kpc>>
    /\ UNCHANGED <<pipeVars, newtVars, pixVars, pathVars, handVars, kz0, kc, kmaxIter, kbig>>

\* line 178: the loop ends, return 0
KernelExit ==
    /\ kpc = "loop"
    /\ ki >= kmaxIter
    /\ kret' = 0
    /\ kpc' = "done"
    /\ UNCHANGED <<pipeVars, newtVars, pixVars, pathVars, handVars, kz0, kz, kc, kmaxIter, kbig, ki, orbit>>

\* one step of juliaIFS
juliaIFS ==
    \/ KernelIter
    \/ KernelExit

(***************************************************************************)
(* The Newton kernel: one call of newtonIFS(z, contrast).  The iterate is  *)
(* not computed: what the model keeps of z is which of the four tests of   *)
(* lines 52-63 matches at each iteration.  A start point that is a root is *)
(* a fixed point of the update and matches its own test at i = 0; the      *)
(* start point 0 divides by zero and never matches; for any other start    *)
(* point every outcome is allowed at every iteration.                      *)
(***************************************************************************)
iterations == 400
contrast == 2000

Roots == {"one", "minusOne", "posI", "negI"}
StartPoints == Roots \cup {"zero", "other"}

\* uint16(x) of a non-negative int
uint16(x) == x % 65536

\* a - b in uint16
Sub16(a, b) == (a - b + 65536) % 65536

\* color.RGBA64{R, G, B, A}
RGBA64(r, g, b, a) == [R |-> r, G |-> g, B |-> b, A |-> a]

\* the colour returned when the test of root matches at iteration i
\* (lines 52-63)
RootColor(root, i) ==
    LET s == Sub16(60000, uint16(contrast * i))
    IN  CASE root = "one"      -> RGBA64(s, 0, 0, 60000)
          [] root = "minusOne" -> RGBA64(0, s, 0, 60000)
          [] root = "posI"     -> RGBA64(0, 0, s, 60000)
          [] root = "negI"     -> RGBA64(s, 0, s, 60000)

\* the tests that can match first at an iteration, for a start point
TestOutcomes(z0) ==
    IF z0 \in Roots THEN {z0}
    ELSE IF z0 = "zero" THEN {"none"}
    ELSE Roots \cup {"none"}

NewtonInit ==
    /\ npc = "loop"
    /\ nz0 \in StartPoints
    /\ ni = 0
    /\ nroot = "none"
    /\ ncol = RGBA64(0, 0, 0, 0)

\* lines 50-64, one turn of the loop
NewtonIter ==
    /\ npc = "loop"
    /\ ni < iterations
    /\ \E hit \in TestOutcomes(nz0) :
          IF hit = "none"
          THEN /\ ni' = ni + 1
               /\ UNCHANGED <<npc, nroot, ncol>>
          ELSE /\ ncol' = RootColor(hit, ni)
               /\ nroot' = hit
               /\ npc' = "done"
               /\ ni' = ni
    /\ UNCHANGED <<pipeVars, kernVars, pixVars, pathVars, handVars, nz0>>

\* line 65: the loop ends, return black
NewtonExit ==
    /\ npc = "loop"
    /\ ni >= iterations
    /\ ncol' = RGBA64(0, 0, 0, 0)
    /\ npc' = "done"
    /\ UNCHANGED <<pipeVars, kernVars, pixVars, pathVars, handVars, nz0, ni, nroot>>

\* one step of newtonIFS
newtonIFS ==
    \/ NewtonIter
    \/ NewtonExit

(***************************************************************************)
(* One pixel of a Julia image: the body of the pixel loop of frameWorker   *)
(* (lines 135-140) and of juliaSingle (fractals/main.go 85-90).  The       *)
(* kernel is called with maxIter = 400, so its result is a loop index of   *)
(* 0 .. 399; which index a pixel gets is left open here.                   *)
(***************************************************************************)
pixelMaxIter == 400

\* the functions that draw Julia pixels
PixelFuncs == {"frameWorker", "juliaSingle"}

\* the colour of an escaping pixel, the same in both functions (line 138)
EscapeColor(j) ==
    RGBA64(0, uint16(2000 * j), Sub16(60000, uint16(2000 * j)), 60000)

\* the colour a pixel has before the test j > 0 (line 136; fractals/main.go
\* line 86)
DefaultColor(fn) ==
    IF fn = "frameWorker" THEN RGBA64(0, 0, 0, 0) ELSE RGBA64(0, 0, 0, 60000)

PixelInit ==
    /\ xpc = "kernel"
    /\ xfn \in PixelFuncs
    /\ xj = 0
    /\ xcol = RGBA64(0, 0, 0, 0)

\* line 135: j := juliaIFS(z, fp.c, 400, 10.0)
PixelKernel ==
    /\ xpc = "kernel"
    /\ xj' \in 0..(pixelMaxIter - 1)
    /\ xpc' = "set"
    /\ UNCHANGED <<pipeVars, kernVars, newtVars, pathVars, handVars, xfn, xcol>>

\* lines 136-140: the colour, then img.Set(px, py, c)
PixelSet ==
    /\ xpc = "set"
    /\ xcol' = IF xj > 0 THEN EscapeColor(xj) ELSE DefaultColor(xfn)
    /\ xpc' = "done"
    /\ UNCHANGED <<pipeVars, kernVars, newtVars, pathVars, handVars, xfn, xj>>

\* one step of the pixel loop body
juliaPixel ==
    \/ PixelKernel
    \/ PixelSet

(***************************************************************************)
(* One path function applied index by index: the calls                     *)
(* paramFuncs[paramPath](k, nFrames) of the push loop (line 44) for        *)
(* k = 0 .. nFrames - 1, and one more call with k = nFrames, the index at  *)
(* which the animation starts over.                                        *)
(***************************************************************************)
MaxPathFrames == 9     \* nFrames is drawn from 1 .. MaxPathFrames

PathInit ==
    /\ tpc = "step"
    /\ tname \in paramFuncNames
    /\ tn \in 1..MaxPathFrames
    /\ ti = 0
    /\ tout = <<>>

\* line 44: cp := paramFuncs[paramPath](k, nFrames)
PathStep ==
    /\ tpc = "step"
    /\ ti <= tn
    /\ tout' = Append(tout, paramFunc(tname, ti, tn))
    /\ ti' = ti + 1
    /\ UNCHANGED <<pipeVars, kernVars, newtVars, pixVars, handVars, tpc, tname, tn>>

\* every index has been given to the function
PathDone ==
    /\ tpc = "step"
    /\ ti > tn
    /\ tpc' = "done"
    /\ UNCHANGED <<pipeVars, kernVars, newtVars, pixVars, handVars, tname, tn, ti, tout>>

\* one step of the path machine
pathCalls ==
    \/ PathStep
    \/ PathDone

(***************************************************************************)
(* One request to the handler julia (ifs-server/main.go 77-105): the       *)
(* three values of the query string are read and defaulted, then the       *)
(* pipeline is called.  A value of numframes or numworkers is a sequence   *)
(* of characters, parsed as strconv.Atoi parses it.                        *)
(***************************************************************************)
MaxQueryLen == 2       \* a number in the query has 0 .. MaxQueryLen characters

\* the characters a number in the query is made of
QueryChars == {"0", "1", "2", "-", "x"}

\* the values numframes and numworkers can have
QueryNumbers == UNION {[1..n -> QueryChars] : n \in 0..MaxQueryLen}

\* the values parampath can have: missing, recognised or not
QueryPaths == paramFuncNames \cup {"", "Mandel"}

\* the value of a decimal digit, -1 for any other character
DigitVal(c) ==
    CASE c = "0" -> 0
      [] c = "1" -> 1
      [] c = "2" -> 2
      [] OTHER   -> -1

\* the digits of s from position p on, read as a number after the value acc
\* of the digits before; -1 if one of them is not a digit
RECURSIVE ParseDigits(_, _, _)
ParseDigits(s, p, acc) ==
    IF p > Len(s) THEN acc
    ELSE IF DigitVal(s[p]) < 0 THEN -1
    ELSE ParseDigits(s, p + 1, 10 * acc + DigitVal(s[p]))

\* strconv.Atoi(s): an optional sign, then at least one digit and nothing
\* but digits; err # nil otherwise
Atoi(s) ==
    LET neg == Len(s) > 0 /\ s[1] = "-"
        from == IF neg THEN 2 ELSE 1
        mag == IF from > Len(s) THEN -1 ELSE ParseDigits(s, from, 0)
    IN  IF mag < 0 THEN [err |-> TRUE, val |-> 0]
        ELSE [err |-> FALSE, val |-> IF neg THEN -mag ELSE mag]

HandlerInit ==
    /\ hpc = "path"
    /\ qpath \in QueryPaths
    /\ qframes \in QueryNumbers
    /\ qworkers \in QueryNumbers
    /\ hpath = ""
    /\ hframes = 0
    /\ hworkers = 0

\* lines 88-92: parampath, replaced by Angor if it is not a recognised name
GetParamPath ==
    /\ hpc = "path"
    /\ hpath' = IF qpath \in paramFuncNames THEN qpath ELSE "Angor"
    /\ hpc' = "frames"
    /\ UNCHANGED <<pipeVars, kernVars, newtVars, pixVars, pathVars,
                   qpath, qframes, qworkers, hframes, hworkers>>

\* lines 93-97: numframes, replaced by 64 if Atoi reports an error
GetNumFrames ==
    /\ hpc = "frames"
    /\ hframes' = IF Atoi(qframes).err THEN 64 ELSE Atoi(qframes).val
    /\ hpc' = "workers"
    /\ UNCHANGED <<pipeVars, kernVars, newtVars, pixVars, pathVars,
                   qpath, qframes, qworkers, hpath, hworkers>>

\* lines 98-102: numworkers, replaced by 4 if Atoi reports an error
GetNumWorkers ==
    /\ hpc = "workers"
    /\ hworkers' = IF Atoi(qworkers).err THEN 4 ELSE Atoi(qworkers).val
    /\ hpc' = "call"
    /\ UNCHANGED <<pipeVars, kernVars, newtVars, pixVars, pathVars,
                   qpath, qframes, qworkers, hpath, hframes>>

\* line 104: engine.Julia(nFrames, nWorkers, paramPath, w)
CallJulia ==
    /\ hpc = "call"
    /\ hpc' = "called"
    /\ UNCHANGED <<pipeVars, kernVars, newtVars, pixVars, pathVars,
                   qpath, qframes, qworkers, hpath, hframes, hworkers>>

\* one step of the handler
julia ==
    \/ GetParamPath
    \/ GetNumFrames
    \/ GetNumWorkers
    \/ CallJulia

(***************************************************************************)
(* The specifications.  A machine that a specification does not run stays  *)
(* in its idle state.                                                      *)
(***************************************************************************)
PipeIdle ==
    /\ nFrames = 0 /\ nWorkers = 0 /\ paramPath = "" /\ pc = "idle"
    /\ k = 0 /\ started = 0 /\ received = 0
    /\ fpMem = [i \in Indices |-> NoJob]
    /\ jobs = <<>> /\ jobsClosed = FALSE /\ results = <<>>
    /\ frames = <<>> /\ animImage = <<>> /\ encoded = <<>>
    /\ wpc = [w \in Workers |-> "none"]
    /\ wfp = [w \in Workers |-> NoJob]
    /\ wimg = [w \in Workers |-> NoImage]
    /\ enq = [i \in Indices |-> 0] /\ deq = [i \in Indices |-> 0]
    /\ snt = [i \in Indices |-> 0] /\ wrote = [i \in Indices |-> 0]
    /\ arrival = <<>> /\ prevFirst = -1 /\ faulted = {}

KernelIdle ==
    /\ kpc = "idle" /\ kz0 = complex(0, 0) /\ kz = complex(0, 0)
    /\ kc = complex(0, 0) /\ kmaxIter = 0 /\ kbig = 0 /\ ki = 0 /\ kret = -1
    /\ orbit = <<>>

NewtonIdle ==
    /\ npc = "idle" /\ nz0 = "zero" /\ ni = 0 /\ nroot = "none"
    /\ ncol = RGBA64(0, 0, 0, 0)

PixelIdle ==
    /\ xpc = "idle" /\ xfn = "" /\ xj = 0 /\ xcol = RGBA64(0, 0, 0, 0)

PathIdle ==
    /\ tpc = "idle" /\ tname = "" /\ tn = 0 /\ ti = 0 /\ tout = <<>>

HandlerIdle ==
    /\ hpc = "idle" /\ qpath = "" /\ qframes = <<>> /\ qworkers = <<>>
    /\ hpath = "" /\ hframes = 0 /\ hworkers = 0

Init == PipeInit /\ KernelIdle /\ NewtonIdle /\ PixelIdle /\ PathIdle /\ HandlerIdle

Next ==
    \/ Julia
    \/ \E w \in Workers : frameWorker(w)

Spec == Init /\ [][Next]_vars

\* The Go scheduler runs every goroutine that is not blocked: the goroutine
\* of Julia and each worker take their next step when one is enabled.
FairSpec ==
    /\ Spec
    /\ WF_vars(Julia)
    /\ \A w \in Workers : WF_vars(frameWorker(w))

\* the pipeline with workers that may panic while they render
NextFault ==
    \/ Julia
    \/ \E w \in Workers : frameWorker(w)
    \/ \E w \in Workers : WorkerFault(w)
    \/ ProcessExit

\* A panic may or may not happen; the exit that follows one does happen.
SpecFault ==
    /\ Init /\ [][NextFault]_vars
    /\ WF_vars(Julia)
    /\ \A w \in Workers : WF_vars(frameWorker(w))
    /\ WF_vars(ProcessExit)

\* two calls of Julia with the same arguments, one after the other
NextTwice ==
    \/ Julia
    \/ \E w \in Workers : frameWorker(w)
    \/ JuliaAgain

SpecTwice == Init /\ [][NextTwice]_vars

InitKernel == PipeIdle /\ KernelInit /\ NewtonIdle /\ PixelIdle /\ PathIdle /\ HandlerIdle

NextKernel == juliaIFS

SpecKernel == InitKernel /\ [][NextKernel]_vars

InitNewton == PipeIdle /\ KernelIdle /\ NewtonInit /\ PixelIdle /\ PathIdle /\ HandlerIdle

NextNewton == newtonIFS

SpecNewton == InitNewton /\ [][NextNewton]_vars

InitPixel == PipeIdle /\ KernelIdle /\ NewtonIdle /\ PixelInit /\ PathIdle /\ HandlerIdle

NextPixel == juliaPixel

SpecPixel == InitPixel /\ [][NextPixel]_vars

InitPath == PipeIdle /\ KernelIdle /\ NewtonIdle /\ PixelIdle /\ PathInit /\ HandlerIdle

NextPath == pathCalls

SpecPath == InitPath /\ [][NextPath]_vars

InitHandler ==
    PipeIdle /\ KernelIdle /\ NewtonIdle /\ PixelIdle /\ PathIdle /\ HandlerInit

NextHandler == julia

SpecHandler == InitHandler /\ [][NextHandler]_vars

(***************************************************************************)
(* The claims about the pipeline, checked under Spec (C4 under FairSpec).  *)
(***************************************************************************)
\* the call is one the contract of the pipeline covers
ValidCall == nFrames >= 1 /\ nWorkers >= 1 /\ paramPath \in paramFuncNames

\* the encoder has been called
Handed == encoded # <<>>

\* C1: for nFrames >= 1 and nWorkers >= 1, whatever the order in which the
\* results arrived, the image at position i of the sequence handed to the
\* encoder is the image rendered from the job of index i.
C1_OrderByIndex ==
    (nFrames >= 1 /\ nWorkers >= 1 /\ Handed) =>
        \A i \in 0..(nFrames - 1) :
            /\ encoded[1][i + 1] # NoImage
            /\ encoded[1][i + 1].job = i

\* C1 witness: a sequence has been handed over although the result of the
\* last frame arrived first and that of frame 0 last.
C1_Witness ==
    /\ Handed
    /\ nFrames >= 2
    /\ nWorkers >= 2
    /\ arrival[1] = nFrames - 1
    /\ arrival[nFrames] = 0

\* C2: for nFrames >= 1 and nWorkers >= 1 the sequence handed to the encoder
\* has exactly nFrames elements and element i is the render of the job
\* (i, path(i, nFrames)) alone, the same for every number of workers and
\* every schedule.
C2_SameAsIsolated ==
    (nFrames >= 1 /\ nWorkers >= 1 /\ Handed) =>
        /\ Len(encoded[1]) = nFrames
        /\ \A i \in 0..(nFrames - 1) :
               encoded[1][i + 1] =
                   [job |-> i, pix |-> paramFuncs(paramPath, i, nFrames)]

\* C2 witness: a sequence has been handed over by a run in which two workers
\* were started and both of them delivered a frame out of index order.
C2_Witness ==
    /\ Handed
    /\ nFrames >= 3
    /\ started >= 2
    /\ \E a, b \in 1..nFrames : a < b /\ arrival[a] > arrival[b]
    /\ \A w \in Workers : wpc[w] = "done"

\* C3: each index is carried by exactly one job, a job is dequeued by at most
\* one worker, at most one result per index is sent, and no two workers hold
\* the same job.
C3_ExactlyOnce ==
    /\ \A i \in Indices :
          /\ enq[i] <= 1
          /\ deq[i] <= 1
          /\ snt[i] <= 1
          /\ (pc \in {"spawn", "collect", "assemble", "done"} =>
                 enq[i] = (IF i < nFrames THEN 1 ELSE 0))
    /\ \A v, w \in Workers :
          (v # w /\ wfp[v] # NoJob /\ wfp[w] # NoJob) =>
              Deref(wfp[v]).index # Deref(wfp[w]).index
    /\ \A a, b \in 1..Len(jobs) : a # b => Deref(jobs[a]).index # Deref(jobs[b]).index

\* C3 witness: two workers hold a job each at the same time, while a third
\* job waits in the queue.
C3_Witness ==
    /\ \E v, w \in Workers : v # w /\ wfp[v] # NoJob /\ wfp[w] # NoJob
    /\ jobs # <<>>

\* C4: under fair scheduling a call with nFrames >= 1, nWorkers >= 1 and a
\* path of the map leads to a state where every job has been rendered and
\* its result delivered, the collector has received exactly nFrames results
\* and the sequence has been handed to the encoder.
C4_Completes ==
    ValidCall ~>
        /\ pc = "done"
        /\ Handed
        /\ received = nFrames
        /\ \A i \in 0..(nFrames - 1) : deq[i] = 1 /\ snt[i] = 1 /\ wrote[i] = 1

\* C4 witness: the call has returned after the collector waited for three
\* results that two workers produced.
C4_Witness ==
    /\ ValidCall
    /\ pc = "done"
    /\ received = nFrames
    /\ nFrames = 3
    /\ nWorkers = 2

\* C5: whenever the encoder is called, every one of the nFrames slots of the
\* frame array holds a result, and the sequence it is handed has nFrames
\* images, none of them nil.
C5_EncoderSeesComplete ==
    Handed =>
        /\ \A i \in DOMAIN frames : frames[i] # NoImage
        /\ \A c \in 1..Len(encoded) :
              /\ Len(encoded[c]) = nFrames
              /\ \A i \in 1..Len(encoded[c]) : encoded[c][i] # NoImage

\* C5 witness: the encoder has been called with a sequence of at least two
\* frames.
C5_Witness ==
    /\ Handed
    /\ Len(encoded[1]) >= 2
    /\ \A i \in DOMAIN frames : frames[i] # NoImage

\* the collector waits for a result that no worker will ever send
CollectorStuck ==
    /\ pc = "collect"
    /\ received < nFrames
    /\ results = <<>>
    /\ \A w \in Workers : wpc[w] \in {"none", "done"}

\* C6: a call with a non-positive frame count or worker count is refused
\* before any job is enqueued or any worker is launched: it does not crash,
\* does not reach the encoder and does not leave the collector waiting for
\* ever.
C6_RejectsBadCounts ==
    (nFrames <= 0 \/ nWorkers <= 0) =>
        /\ pc # "panic"
        /\ \A i \in Indices : enq[i] = 0
        /\ \A w \in Workers : wpc[w] = "none"
        /\ ~Handed
        /\ ~CollectorStuck

\* C7: a call whose counts are valid but whose path name is not in the map
\* is refused as a caller error before any job is dispatched: it does not
\* crash, enqueues no job, launches no worker and hands nothing to the
\* encoder.
C7_RejectsUnknownPath ==
    (nFrames >= 1 /\ nWorkers >= 1 /\ paramPath \notin paramFuncNames) =>
        /\ pc # "panic"
        /\ \A i \in Indices : enq[i] = 0
        /\ \A w \in Workers : wpc[w] = "none"
        /\ ~Handed

(***************************************************************************)
(* The claims about the Julia kernel, checked under SpecKernel.            *)
(***************************************************************************)
\* the modulus of iterate j of the call exceeds the threshold
Exceeds(j) ==
    orbit[j].re * orbit[j].re + orbit[j].im * orbit[j].im > kbig * kbig

\* the history is the orbit of the arguments: iterate 1 is z*z + c for the
\* z passed, iterate j + 1 is the same map applied to iterate j
IsOrbit ==
    \A j \in 1..Len(orbit) :
        LET p == IF j = 1 THEN kz0 ELSE orbit[j - 1]
        IN  /\ orbit[j].re = p.re * p.re - p.im * p.im + kc.re
            /\ orbit[j].im = 2 * p.re * p.im + kc.im

\* C8: juliaIFS returns 0 exactly when no iterate exceeds the threshold
\* within maxIter iterations, and a number n >= 1 whenever one does.
C8_ZeroIffBounded ==
    kpc = "done" =>
        /\ IsOrbit
        /\ (kret = 0 <=> \A j \in 1..Len(orbit) : ~Exceeds(j))
        /\ ((\E j \in 1..Len(orbit) : Exceeds(j)) => kret >= 1)

C10_RootHues ==
    (npc = "done" /\ nroot # "none") =>
        CASE nroot = "one"      -> ncol.R > 0 /\ ncol.G = 0 /\ ncol.B = 0
          [] nroot = "minusOne" -> ncol.B > 0 /\ ncol.R = 0 /\ ncol.G = 0
          [] nroot = "posI"     -> ncol.G > 0 /\ ncol.R = 0 /\ ncol.B = 0
          [] nroot = "negI"     -> ncol.R > 0 /\ ncol.B > 0 /\ ncol.G = 0

(***************************************************************************)
(* The claims about the colours, checked under SpecPixel and SpecNewton.   *)
(***************************************************************************)
Min(a, b) == IF a < b THEN a ELSE b
Max(a, b) == IF a > b THEN a ELSE b

\* C11: every pixel has the alpha value 60000 of the coloured pixels: the
\* pixels frameWorker and juliaSingle set, with a non-escaping point black
\* and opaque, and the colours newtonIFS returns, with an unconverged point
\* black and opaque.
C11_OpaqueEverywhere ==
    /\ (xpc = "done" => xcol.A = 60000)
    /\ ((xpc = "done" /\ xj = 0) => xcol = RGBA64(0, 0, 0, 60000))
    /\ (npc = "done" => ncol.A = 60000)
    /\ ((npc = "done" /\ nroot = "none") => ncol = RGBA64(0, 0, 0, 60000))

\* C12: for an escape index i in 1 .. 399 the green channel of the pixel is
\* min(2000 * i, 65535) and the blue channel is max(60000 - 2000 * i, 0):
\* the ramp is clamped, hence monotone in i, and never wraps.
C12_RampClamped ==
    (xpc = "done" /\ xj \in 1..399) =>
        /\ xcol.G = Min(2000 * xj, 65535)
        /\ xcol.B = Max(60000 - 2000 * xj, 0)

\* the brightness of a colour: its largest colour channel
Brightness(col) == Max(col.R, Max(col.G, col.B))

\* C13: for a convergence index i in 0 .. 399 the brightness of the colour
\* newtonIFS returns is max(60000 - 2000 * i, 0): clamped, hence never
\* larger for a larger i, and never wrapped.
C13_BrightnessClamped ==
    (npc = "done" /\ nroot # "none") =>
        Brightness(ncol) = Max(60000 - contrast * ni, 0)

(***************************************************************************)
(* The claims about the paths, checked under SpecPath.                     *)
(***************************************************************************)
\* path(i, tn), once it has been computed
PathAt(i) == tout[i + 1]

\* x is a finite float64
IsFin(x) == x.kind = "fin"

\* x <= y, for finite x and y
FLe(x, y) == x.num * y.den <= y.num * x.den

\* C14: for Angor and Wabbit, every nFrames >= 2 and every i with
\* nFrames/2 <= i < nFrames, path(i, nFrames) = path(nFrames - i, nFrames).
C14_SymmetricAboutEnd ==
    (tpc = "done" /\ tname \in {"Angor", "Wabbit"} /\ tn >= 2) =>
        \A i \in (tn \div 2)..(tn - 1) : PathAt(i) = PathAt(tn - i)

\* C15: for every nFrames >= 1 and every i in 0 .. nFrames - 1 the Angor
\* parameter is finite, has imaginary part 0 and real part in
\* [-1.45, -1.25]; it is -1.45 at i = 0 and -1.25 at i = nFrames/2, does not
\* decrease up to nFrames/2 and does not increase after it.
C15_AngorWellDefined ==
    (tpc = "done" /\ tname = "Angor") =>
        LET lo == Fin(-145, 100)
            hi == Fin(-125, 100)
            half == tn \div 2
        IN  /\ \A i \in 0..(tn - 1) :
                  /\ IsFin(PathAt(i).re)
                  /\ PathAt(i).im = Fin(0, 1)
                  /\ FLe(lo, PathAt(i).re)
                  /\ FLe(PathAt(i).re, hi)
            /\ PathAt(0).re = lo
            /\ PathAt(half).re = hi
            /\ \A i \in 0..(tn - 2) :
                  IF i < half
                  THEN FLe(PathAt(i).re, PathAt(i + 1).re)
                  ELSE FLe(PathAt(i + 1).re, PathAt(i).re)

\* two values of expFunc are the same point of the plane: the same modulus
\* and angles that differ by a whole number of turns
SamePoint(a, b) ==
    /\ a.mod = b.mod
    /\ IsFin(a.turn)
    /\ IsFin(b.turn)
    /\ FSub(a.turn, b.turn).den = 1

C17_SameTwice ==
    Len(encoded) = 2 => encoded[1] = encoded[2]

\* C17 witness: two calls of at least three frames and two workers have
\* completed under different schedules: the result that arrived first in
\* the first call is not the one that arrived first in the second.
C17_Witness ==
    /\ Len(encoded) = 2
    /\ nFrames >= 3
    /\ nWorkers >= 2
    /\ prevFirst # arrival[1]

(***************************************************************************)
(* The claims about the order of the pipeline's steps and about its        *)
(* goroutines, checked under FairSpec (C20 under Spec).                    *)
(***************************************************************************)
\* C18: when the first worker is started all nFrames jobs have been
\* enqueued; the queue is closed only after the last job was enqueued, it is
\* closed once the workers are started and never a second time; every job
\* sent is a record of its own, and a job record is never written again
\* after it was created.
C18_JobsFixedBeforeWorkers ==
    /\ [](/\ (started > 0 \/ \E w \in Workers : wpc[w] # "none") =>
                (k = nFrames /\ \A i \in 0..(nFrames - 1) : enq[i] = 1)
          /\ jobsClosed =>
                /\ \A i \in 0..(nFrames - 1) : enq[i] = 1
                /\ pc \in {"collect", "assemble", "done"}
          /\ \A a, b \in 1..Len(jobs) : a # b => jobs[a].at # jobs[b].at
          /\ \A w \in Workers : \A a \in 1..Len(jobs) : wfp[w] # jobs[a]
          /\ \A v, w \in Workers :
                (v # w /\ wfp[v] # NoJob) => wfp[v] # wfp[w])
    /\ [][/\ jobsClosed => jobsClosed'
          /\ \A a \in Indices : fpMem[a] # NoJob => fpMem'[a] = fpMem[a]]_vars
    /\ (pc = "spawn" ~> jobsClosed)

\* C18 witness: the queue has been closed with a job still waiting in it,
\* while two workers each hold a job whose record is as it was created.
C18_Witness ==
    /\ jobsClosed
    /\ nFrames >= 3
    /\ jobs # <<>>
    /\ \E v, w \in Workers :
          /\ v # w
          /\ wfp[v] # NoJob
          /\ wfp[w] # NoJob
          /\ Deref(wfp[v]) =
                 frameParameter(wfp[v].at, paramFuncs(paramPath, wfp[v].at, nFrames))

\* worker w waits for a job on a queue that is empty and not closed
BlockedOnJobs(w) == wpc[w] = "recv" /\ jobs = <<>> /\ ~jobsClosed

\* worker w waits for room in the results channel
BlockedOnResults(w) == wpc[w] = "send" /\ Len(results) >= ChanCap

\* each of the nWorkers workers has been started and has returned
AllWorkersDone ==
    \A w \in Workers : wpc[w] = IF w <= nWorkers THEN "done" ELSE "none"

\* C19: under fair scheduling, once Julia starts its workers all nWorkers of
\* them terminate, and in a call with valid arguments they do so and the
\* call completes, also when nWorkers > nFrames; a worker leaves its loop only
\* when the queue is closed and empty, it draws only a job it has taken from
\* the queue, and once Julia has returned no worker is blocked on either
\* channel.
C19_WorkersTerminate ==
    /\ (pc = "spawn") ~> AllWorkersDone
    /\ ValidCall ~> (pc = "done" /\ AllWorkersDone)
    /\ [](/\ \A w \in Workers :
                wpc[w] \in {"render", "send"} => wfp[w] # NoJob
          /\ pc = "done" =>
                \A w \in Workers : ~BlockedOnJobs(w) /\ ~BlockedOnResults(w))
    /\ [][\A w \in Workers :
             (wpc[w] # "done" /\ wpc'[w] = "done") =>
                 (jobs = <<>> /\ jobsClosed /\ wfp[w] = NoJob)]_vars

\* C19 witness: a call with one frame and three workers has completed and
\* all three workers have left their loops.
C19_Witness ==
    /\ ValidCall
    /\ nFrames = 1
    /\ nWorkers = 3
    /\ pc = "done"
    /\ AllWorkersDone

\* C20: the slot array is written by steps of the goroutine of Julia only,
\* never by a step of a worker; no slot is written twice, a slot that holds
\* a result is not overwritten while results are collected, and when the
\* collect loop has ended each of the nFrames slots has been written once.
C20_SingleWriter ==
    /\ [](\A i \in Indices :
             /\ wrote[i] <= 1
             /\ pc \in {"assemble", "done"} =>
                   wrote[i] = (IF i < nFrames THEN 1 ELSE 0)
             /\ (i \in DOMAIN frames /\ frames[i] # NoImage) => wrote[i] = 1)
    /\ [][/\ frames' # frames => Julia
          /\ \A w \in Workers : frameWorker(w) => frames' = frames
          /\ pc = "collect" =>
                \A i \in DOMAIN frames :
                    frames[i] # NoImage => frames'[i] = frames[i]]_vars

\* C20 witness: the collector has stored two of three results, each in its
\* own slot, and a worker is about to send the third.
C20_Witness ==
    /\ pc = "collect"
    /\ nFrames = 3
    /\ received = 2
    /\ \E i \in 0..2 : wrote = [j \in Indices |-> IF j < 3 /\ j # i THEN 1 ELSE 0]
    /\ \E w \in Workers : wpc[w] = "send"

(***************************************************************************)
(* The claim about the Wabbit path, checked under SpecPath.                *)
(***************************************************************************)
\* C23: for Wabbit, every nFrames >= 2 and every i in 0 .. nFrames - 1, the
\* real and the imaginary part of the parameter are offset by the same
\* amount from the centre (0.3887, -0.2158), the offset lies between -0.03
\* and 0.03, and both ends of that range are taken.
C23_WabbitAboutCentre ==
    (tpc = "done" /\ tname = "Wabbit" /\ tn >= 2) =>
        LET offRe(i) == FSub(PathAt(i).re, Fin(3887, 10000))
            offIm(i) == FSub(PathAt(i).im, Fin(-2158, 10000))
        IN  /\ \A i \in 0..(tn - 1) :
                  /\ IsFin(offRe(i))
                  /\ offRe(i) = offIm(i)
                  /\ FLe(Fin(-3, 100), offRe(i))
                  /\ FLe(offRe(i), Fin(3, 100))
            /\ \E i \in 0..(tn - 1) : offRe(i) = Fin(-3, 100)
            /\ \E i \in 0..(tn - 1) : offRe(i) = Fin(3, 100)

(***************************************************************************)
(* The implicit claims about the pipeline, checked under Spec.             *)
(***************************************************************************)
\* the indices of the jobs waiting in the queue
InQueue == {Deref(jobs[a]).index : a \in 1..Len(jobs)}

\* the indices of the jobs in the hands of a worker
InHand == {Deref(wfp[w]).index : w \in {v \in Workers : wfp[v] # NoJob}}

\* the indices of the results waiting in the results channel
InResults == {results[a].index : a \in 1..Len(results)}

\* the indices of the slots the collector has filled
InSlots == {i \in DOMAIN frames : frames[i] # NoImage}

\* C24: once the jobs have been enqueued, the jobs in the queue, the jobs in
\* the hands of a worker, the results in the results channel and the filled
\* slots are nFrames together, and the four sets of indices are pairwise
\* disjoint and make up 0 .. nFrames - 1.
C24_Conservation ==
    pc \in {"spawn", "collect", "assemble", "done"} =>
        /\ Len(jobs) + Cardinality({w \in Workers : wfp[w] # NoJob})
               + Len(results) + Cardinality(InSlots) = nFrames
        /\ Cardinality(InQueue) = Len(jobs)
        /\ Cardinality(InHand) = Cardinality({w \in Workers : wfp[w] # NoJob})
        /\ Cardinality(InResults) = Len(results)
        /\ InQueue \cap InHand = {}
        /\ InQueue \cap InResults = {}
        /\ InQueue \cap InSlots = {}
        /\ InHand \cap InResults = {}
        /\ InHand \cap InSlots = {}
        /\ InResults \cap InSlots = {}
        /\ InQueue \cup InHand \cup InResults \cup InSlots = 0..(nFrames - 1)

\* C24 witness: of three frames one is in a slot, one is in the hands of a
\* worker and one still waits in the queue.
C24_Witness ==
    /\ nFrames = 3
    /\ Cardinality(InSlots) = 1
    /\ Cardinality(InHand) = 1
    /\ Len(jobs) = 1

\* C25: no send blocks.  Neither channel ever holds more than nFrames
\* items; whenever Julia is about to send a job there is room in the job
\* queue, and no worker exists yet; whenever a worker is about to send a
\* result there is room in the results channel, whether or not the
\* collector has begun to receive.
C25_NoSendBlocks ==
    /\ pc # "panic" /\ pc # "make" => Len(jobs) <= nFrames /\ Len(results) <= nFrames
    /\ (pc = "push" /\ k < nFrames /\ paramPath \in paramFuncNames) =>
          /\ Len(jobs) < ChanCap
          /\ \A w \in Workers : wpc[w] = "none"
    /\ \A w \in Workers : wpc[w] = "send" => Len(results) < ChanCap

\* C25 witness: the collector has not begun to receive, a result already
\* waits in the results channel and a worker is about to send another.
C25_Witness ==
    /\ pc = "spawn"
    /\ Len(results) >= 1
    /\ \E w \in Workers : wpc[w] = "send"

(***************************************************************************)
(* The claim about the handler, checked under SpecHandler.                 *)
(***************************************************************************)
\* C22: for every query string, the handler calls the pipeline with a
\* recognised path name, nFrames >= 1 and nWorkers >= 1.
C22_HandlerValidates ==
    hpc = "called" =>
        /\ hpath \in paramFuncNames
        /\ hframes >= 1
        /\ hworkers >= 1

(***************************************************************************)
(* The claim about a worker that faults, checked under SpecFault.          *)
(***************************************************************************)
\* C21: if a worker faults while it renders a job, the collector is not left
\* blocked for ever: the whole render is aborted; no slot is ever filled with
\* a frame other than the render of its own index, and no sequence is handed
\* to the encoder.
C21_FaultAbortsRender ==
    /\ [](faulted # {} => ~Handed)
    /\ [](\A i \in DOMAIN frames :
              frames[i] # NoImage =>
                  /\ i \notin faulted
                  /\ frames[i] = [job |-> i,
                                  pix |-> paramFuncs(paramPath, i, nFrames)])
    /\ (faulted # {}) ~> (pc = "crashed")

\* C21 witness: the render was aborted after a worker had panicked on one
\* job while the collector had stored the frame of another job and was
\* waiting for the next result.
C21_Witness ==
    /\ pc = "crashed"
    /\ faulted # {}
    /\ received < nFrames
    /\ \E i \in DOMAIN frames : frames[i] # NoImage /\ i \notin faulted

====
